---- MODULE Spec2Model ----
(***************************************************************************)
(* libmidi_io: the port lifecycle and concurrency model of                 *)
(* src/libmidi_io/types/port.py (BasePort, EchoPort, MultiPort).           *)
(*                                                                         *)
(* One port object is constructed and then used by several threads of      *)
(* control.  Every public method is split into the steps between which     *)
(* another thread can be scheduled: a step is either a piece of code run   *)
(* without the port lock (one read of self.closed, for instance) or a      *)
(* piece run inside `with self._lock`.  The transport primitives (_open,   *)
(* _close, _send, _receive) of a backend port are external code: their     *)
(* outcome is a nondeterministic choice among the outcomes the contract    *)
(* allows (return, raise IOError, raise another exception).                *)
(*                                                                         *)
(* The code run inside `with self._lock` is one step for a locking port    *)
(* (RLock): no other thread can run locked code of the same port in        *)
(* between, and the unlocked reads of self.closed and the input thread's   *)
(* append commute with it.  close() holds the lock over several steps      *)
(* (reset, _close, the assignment of closed) so that what the other        *)
(* threads see while it runs is explicit.                                  *)
(***************************************************************************)
EXTENDS Integers, Sequences, FiniteSets, TLC

\* ---------------------------------------------------------------- bounds
NumThreads == 2
MaxCalls == 2
MaxMsgs == 2
MaxChildren == 1
PollCap == 2
MaxSteps == 4
NumPorts == 2
NumCandidates == 2

\* ------------------------------------------------------ program constants
DEFAULT_NUM_CHANNELS == 16
ALL_NOTES_OFF == 123
RESET_ALL_CONTROLLERS == 121

Threads == 1..NumThreads
NoThread == 0

VARIABLES
    kind,        \* the class of the port: "Driver" (a backend port), "Echo", "Multi"
    caps,        \* a backend port's is_input()/is_output() answers
    locking,     \* BasePort._locking
    autoreset,   \* self.autoreset
    ports,       \* MultiPort.ports: the child ports
    ctor,        \* position of BasePort.__init__
    closed,      \* self.closed
    messages,    \* self._messages
    lock,        \* owner of self._lock (NoThread: free)
    finalized,   \* __del__ has been run: no reference to the port is left
    pc,          \* per thread: position inside the method it is running
    frame,       \* per thread: the running call's arguments and local history
    res,         \* per thread: how its last call ended
    callSends,   \* per thread: transport _send invocations made by its last call
    calls,       \* public calls started so far
    nextMsg,     \* messages created so far
    closeCalls,  \* invocations of the transport _close
    sendAfterClose, \* a transport _send was invoked on a port already marked closed
    heap,        \* SeqSpec: the message objects, by address: their present contents
    mine,        \* SeqSpec: addresses of the objects the caller created and can mutate
    wire,        \* SeqSpec: the transport _send calls: the object handed over, its contents then
    out,         \* SeqSpec: how the caller's last call ended
    gen,         \* MultiSpec, per thread: the generator MultiPort._receive gave it
    fan,         \* MultiSpec, per thread: the `for port in self.ports` loop of its send
    modules,     \* RegSpec: the candidate modules of the backends package, by name
    found,       \* RegSpec: what the last get_available_backends() returned
    lookup,      \* RegSpec: how the last get_backend(name) ended
    twin         \* LockSpec: the same port type with the RLock and with the DummyLock

\* The message objects of the sequential specification SeqSpec.
objVars == <<heap, mine, wire, out>>

\* The loops over the children of the MultiPort specification MultiSpec.
loopVars == <<gen, fan>>

\* The backend registry of the specification RegSpec.
regVars == <<modules, found, lookup>>

\* The pair of ports of the specification LockSpec.
pairVars == <<twin>>

vars == <<kind, caps, locking, autoreset, ports, ctor, closed, messages, lock,
          finalized, pc, frame, res, callSends, calls, nextMsg, closeCalls,
          sendAfterClose, objVars, loopVars, regVars, pairVars>>

\* ------------------------------------------------------------- messages
\* A message is opaque to the port: <<type, a, b, c>>.
NoMsg == <<"none", 0, 0, 0>>
Msg(id) == <<"msg", id, 0, 0>>
MessageControlChange(channel, control, value) == <<"cc", channel, control, value>>

\* Mutant of reset_messages: the two loops are nested the other way round.
reset_messages_ControlMajor ==
    [i \in 1..(2 * DEFAULT_NUM_CHANNELS) |->
        MessageControlChange((i - 1) % DEFAULT_NUM_CHANNELS,
                             IF i <= DEFAULT_NUM_CHANNELS THEN ALL_NOTES_OFF
                             ELSE RESET_ALL_CONTROLLERS,
                             0)]

\* reset_messages(): channel-major, All Notes Off then Reset All Controllers.
reset_messages ==
    [i \in 1..(2 * DEFAULT_NUM_CHANNELS) |->
        MessageControlChange((i - 1) \div 2,
                             IF i % 2 = 1 THEN ALL_NOTES_OFF ELSE RESET_ALL_CONTROLLERS,
                             0)]

\* ------------------------------------------------------- results of calls
\* op: the method; tag: "ret" or "raise"; type: what was returned ("None", "msg",
\* "generator") or the class of the exception; line: the line of port.py that
\* returned or raised; onClosed: self.closed when the call's last step began.
NoCall ==
    [op |-> "", tag |-> "nocall", type |-> "", line |-> 0, val |-> NoMsg, onClosed |-> FALSE]
Pending(op) ==
    [op |-> op, tag |-> "pending", type |-> "", line |-> 0, val |-> NoMsg, onClosed |-> FALSE]
Return(type, v, line) == [tag |-> "ret", type |-> type, line |-> line, val |-> v]
Raise(type, line) == [tag |-> "raise", type |-> type, line |-> line, val |-> NoMsg]

\* The spec's error kinds are Python exception classes in the code.
InvalidOperation == "ValueError"
ClosedPort == "IOError"

\* ------------------------------------------------------------ capabilities
ChildCaps == {[input |-> TRUE, output |-> FALSE], [input |-> FALSE, output |-> TRUE]}

is_input ==
    CASE kind = "Echo" -> TRUE
      [] kind = "Multi" -> \E i \in 1..Len(ports) : ports[i].input
      [] OTHER -> caps.input

is_output ==
    CASE kind = "Echo" -> TRUE
      [] kind = "Multi" -> \E i \in 1..Len(ports) : ports[i].output
      [] OTHER -> caps.output

\* MultiPort.__init__ calls super().__init__(self, "multi"): the string "multi"
\* lands in the autoreset parameter, and a non-empty string is true.
MultiPortAutoreset == TRUE

\* ------------------------------------------------------------------ lock
\* RLock (reentrant) when _locking, DummyLock (acquire always succeeds)
\* otherwise; how a with block over a DummyLock ends is LockExit, below.
CanAcquire(t) == ~locking \/ lock = NoThread \/ lock = t
Acquired(t) == IF locking THEN t ELSE NoThread

\* ------------------------------------------------------------- transport
\* Outcome of one transport call: type is "ok" or the class of the exception
\* raised; at is the child whose send() raised inside MultiPort._send (0: none).
Ok == [type |-> "ok", at |-> 0]
Fail(type, at) == [type |-> type, at |-> at]
TransportErrors == {"IOError", "RuntimeError"}

\* _open: EchoPort and MultiPort do nothing; a backend's may fail.
OpenOutcomes ==
    IF kind = "Driver" THEN {Ok} \cup {Fail(e, 0) : e \in TransportErrors} ELSE {Ok}

\* _close: EchoPort and MultiPort do nothing; a backend's may fail.
CloseOutcomes ==
    IF kind = "Driver" THEN {Ok} \cup {Fail(e, 0) : e \in TransportErrors} ELSE {Ok}

\* The children MultiPort._send forwards to: output ports that are not closed.
Eligible(ps) == {i \in 1..Len(ps) : ps[i].output /\ ~ps[i].closed}

\* _send: a backend's may fail; EchoPort's appends; MultiPort's calls send() on
\* every eligible child in list order, and a child's send() may fail.
SendOutcomes(ps) ==
    CASE kind = "Driver" -> {Ok} \cup {Fail(e, 0) : e \in TransportErrors}
      [] kind = "Echo" -> {Ok}
      [] OTHER -> {Ok} \cup {Fail(e, i) : e \in TransportErrors, i \in Eligible(ps)}

\* State left by one invocation _send(m) with outcome o; s = [messages, ports].
TransportSend(s, m, o) ==
    [messages |-> IF kind = "Echo" THEN Append(s.messages, m) ELSE s.messages,
     ports |-> IF kind = "Multi"
               THEN [i \in 1..Len(s.ports) |->
                        IF i \in Eligible(s.ports) /\ (o.at = 0 \/ i <= o.at)
                        THEN [s.ports[i] EXCEPT !.sent = @ + 1]
                        ELSE s.ports[i]]
               ELSE s.ports]

\* _receive(block): a backend's returns a message or None; EchoPort's returns
\* None; MultiPort's is a generator function, so the call returns a generator
\* object (which is true in `if msg:`) without running any of its body.
ReceiveOutcomes ==
    CASE kind = "Driver" -> {"None"} \cup (IF nextMsg < MaxMsgs THEN {"msg"} ELSE {})
      [] kind = "Echo" -> {"None"}
      [] OTHER -> {"generator"}

\* ------------------------------------------------------------ call frames
\* What no method of the port writes: the constructor's arguments and, in the
\* specification of concurrent callers, the state kept by the other
\* specifications of this module.
Elsewhere == <<objVars, loopVars, regVars, pairVars>>
Config == <<kind, caps, locking, autoreset, Elsewhere>>

NoFrame == [op |-> "", block |-> FALSE, arg |-> NoMsg, recvs |-> 0, slept |-> FALSE]

Idle(t) == pc[t] = "idle"

\* A call can be made on a constructed port that is still referenced.  A port
\* that opts out of locking (DummyLock) is used by one thread at a time: the
\* no-op lock guards nothing, so its methods are not steps that other threads
\* can be kept out of.
MayCall ==
    /\ ctor = "done" /\ ~finalized /\ calls < MaxCalls
    /\ locking \/ \A u \in Threads : Idle(u)

\* Entering a public method in thread t with frame f.
Enter(t, label, f) ==
    /\ pc' = [pc EXCEPT ![t] = label]
    /\ frame' = [frame EXCEPT ![t] = f]
    /\ res' = [res EXCEPT ![t] = Pending(f.op)]
    /\ callSends' = [callSends EXCEPT ![t] = 0]

\* Leaving it, by return or by an exception.
Leave(t, r) ==
    /\ pc' = [pc EXCEPT ![t] = "idle"]
    /\ frame' = [frame EXCEPT ![t] = NoFrame]
    /\ res' = [res EXCEPT ![t] = [op |-> frame[t].op, tag |-> r.tag, type |-> r.type,
                                  line |-> r.line, val |-> r.val, onClosed |-> closed]]

\* Going on inside it.
Goto(t, label) ==
    /\ pc' = [pc EXCEPT ![t] = label]
    /\ UNCHANGED <<frame, res>>

\* ----------------------------------------------------------- construction
\* Mutant of BasePortInit: self.closed = False is run even when _open raises.
BasePortInit_OpensOnFailure ==
    /\ ctor = "opening"
    /\ \E o \in OpenOutcomes :
        /\ closed' = FALSE
        /\ ctor' = IF o.type = "ok" THEN "done" ELSE "failed"
    /\ UNCHANGED <<Config, ports, messages, lock, finalized, pc, frame, res, callSends,
                   calls, nextMsg, closeCalls, sendAfterClose>>

\* BasePort.__init__, lines 49-50: self._open(**kwargs); self.closed = False.
\* Lines 40-48 (fields, lock, empty deque, self.closed = True) are Init.
BasePortInit ==
    /\ ctor = "opening"
    /\ \E o \in OpenOutcomes :
        IF o.type = "ok"
        THEN /\ closed' = FALSE
             /\ ctor' = "done"
        ELSE /\ ctor' = "failed"
             /\ UNCHANGED closed
    /\ UNCHANGED <<Config, ports, messages, lock, finalized, pc, frame, res, callSends,
                   calls, nextMsg, closeCalls, sendAfterClose>>

\* ------------------------------------------------------------------ send
\* Mutant of SendCheck: the test of self.closed is missing.
SendCheck_NoClosedTest(t) ==
    /\ pc[t] = "send"
    /\ IF ~is_output THEN Leave(t, Raise("ValueError", 208))
       ELSE Goto(t, "send_locked")
    /\ UNCHANGED <<Config, ports, ctor, closed, messages, lock, finalized, callSends,
                   calls, nextMsg, closeCalls, sendAfterClose>>

\* send(msg), lines 207-210: the capability and closed checks, made without the lock.
SendCheck(t) ==
    /\ pc[t] = "send"
    /\ IF ~is_output THEN Leave(t, Raise("ValueError", 208))
       ELSE IF closed THEN Leave(t, Raise("ValueError", 210))
       ELSE Goto(t, "send_locked")
    /\ UNCHANGED <<Config, ports, ctor, closed, messages, lock, finalized, callSends,
                   calls, nextMsg, closeCalls, sendAfterClose>>

\* send(msg), lines 212-213: with self._lock: self._send(msg.copy()).
SendLocked(t) ==
    /\ pc[t] = "send_locked"
    /\ CanAcquire(t)
    /\ \E o \in SendOutcomes(ports) :
        LET s == TransportSend([messages |-> messages, ports |-> ports], frame[t].arg, o) IN
        /\ messages' = s.messages
        /\ ports' = s.ports
        /\ Leave(t, IF o.type = "ok" THEN Return("None", NoMsg, 213) ELSE Raise(o.type, 213))
    /\ callSends' = [callSends EXCEPT ![t] = @ + 1]
    /\ sendAfterClose' = (sendAfterClose \/ closed)
    /\ UNCHANGED <<Config, ctor, closed, lock, finalized, calls, nextMsg, closeCalls>>

\* ----------------------------------------------------------------- reset
\* One run of `for msg in reset_messages(): self.send(msg)` on an output port
\* that stays open: n transport sends are invoked, the first n - 1 return and
\* the last one ends as `last`.  A transport failure, if any, hits the first
\* or the last message.
ResetFailAt == {1, Len(reset_messages)}

\* The state that run leaves: the effect of n consecutive TransportSend calls,
\* the first n - 1 with outcome Ok and the n-th with outcome last, on
\* reset_messages[1..n].
ResetSends(s, n, last) ==
    [messages |-> IF kind = "Echo"
                  THEN s.messages \o SubSeq(reset_messages, 1, n)
                  ELSE s.messages,
     ports |-> IF kind = "Multi"
               THEN [i \in 1..Len(s.ports) |->
                        IF i \in Eligible(s.ports)
                        THEN [s.ports[i] EXCEPT
                                !.sent = @ + (n - 1)
                                           + (IF last.at = 0 \/ i <= last.at THEN 1 ELSE 0)]
                        ELSE s.ports[i]]
               ELSE s.ports]

\* ----------------------------------------------------------------- close
\* Mutant of CloseEnter: the test of self.closed is missing.
CloseEnter_NoClosedTest(t) ==
    /\ pc[t] = "close"
    /\ CanAcquire(t)
    /\ Goto(t, IF autoreset THEN "close_reset" ELSE "close_transport")
    /\ lock' = Acquired(t)
    /\ UNCHANGED <<Config, ports, ctor, closed, messages, finalized, callSends, calls,
                   nextMsg, closeCalls, sendAfterClose>>

\* close(), lines 124-126: take the lock and test self.closed and self.autoreset.
CloseEnter(t) ==
    /\ pc[t] = "close"
    /\ CanAcquire(t)
    /\ IF closed
       THEN Leave(t, Return("None", NoMsg, 125)) /\ UNCHANGED lock
       ELSE /\ Goto(t, IF autoreset THEN "close_reset" ELSE "close_transport")
            /\ lock' = Acquired(t)
    /\ UNCHANGED <<Config, ports, ctor, closed, messages, finalized, callSends, calls,
                   nextMsg, closeCalls, sendAfterClose>>

\* close(), lines 127-130: try: self.reset() except IOError: pass.
\* reset() returns at once on a closed port; otherwise it calls send() for each
\* reset message, and send() raises ValueError on a port that is not an output.
CloseReset(t) ==
    /\ pc[t] = "close_reset"
    /\ IF closed
       THEN /\ Goto(t, "close_transport")
            /\ UNCHANGED <<lock, messages, ports, callSends, sendAfterClose>>
       ELSE IF ~is_output
       THEN /\ Leave(t, Raise("ValueError", 208))
            /\ lock' = NoThread
            /\ UNCHANGED <<messages, ports, callSends, sendAfterClose>>
       ELSE \E n \in ResetFailAt, last \in SendOutcomes(ports) :
            /\ last.type = "ok" => n = Len(reset_messages)
            /\ LET s == ResetSends([messages |-> messages, ports |-> ports], n, last) IN
                /\ messages' = s.messages
                /\ ports' = s.ports
            /\ callSends' = [callSends EXCEPT ![t] = @ + n]
            /\ sendAfterClose' = (sendAfterClose \/ closed)
            /\ IF last.type \in {"ok", "IOError"}
               THEN Goto(t, "close_transport") /\ UNCHANGED lock
               ELSE Leave(t, Raise(last.type, 213)) /\ lock' = NoThread
    /\ UNCHANGED <<Config, ctor, closed, finalized, calls, nextMsg, closeCalls>>

\* close(), line 132: self._close().
CloseTransport(t) ==
    /\ pc[t] = "close_transport"
    /\ closeCalls' = closeCalls + 1
    /\ \E o \in CloseOutcomes :
        IF o.type = "ok"
        THEN Goto(t, "close_mark") /\ UNCHANGED lock
        ELSE Leave(t, Raise(o.type, 132)) /\ lock' = NoThread
    /\ UNCHANGED <<Config, ports, ctor, closed, messages, finalized, callSends, calls,
                   nextMsg, sendAfterClose>>

\* close(), line 133: self.closed = True, and the end of the with block.
CloseMark(t) ==
    /\ pc[t] = "close_mark"
    /\ closed' = TRUE
    /\ lock' = NoThread
    /\ Leave(t, Return("None", NoMsg, 133))
    /\ UNCHANGED <<Config, ports, ctor, messages, finalized, callSends, calls, nextMsg, closeCalls, sendAfterClose>>

\* --------------------------------------------------------------- receive
Min(a, b) == IF a < b THEN a ELSE b

\* Mutant of ReceivePending: self.closed is tested before the pending queue.
ReceivePending_ClosedFirst(t) ==
    /\ pc[t] = "receive"
    /\ ~is_input \/ CanAcquire(t)
    /\ IF ~is_input
       THEN Leave(t, Raise("ValueError", 159)) /\ UNCHANGED messages
       ELSE IF closed
       THEN /\ Leave(t, IF frame[t].block THEN Raise("ValueError", 168)
                        ELSE Return("None", NoMsg, 170))
            /\ UNCHANGED messages
       ELSE IF messages # <<>>
       THEN Leave(t, Return("msg", Head(messages), 164)) /\ messages' = Tail(messages)
       ELSE Goto(t, "receive_closed") /\ UNCHANGED messages
    /\ UNCHANGED <<Config, ports, ctor, closed, lock, finalized, callSends, calls,
                   nextMsg, closeCalls, sendAfterClose>>

\* receive(block), lines 158-164: the capability check, then under the lock
\* the pending queue is looked at first.
ReceivePending(t) ==
    /\ pc[t] = "receive"
    /\ ~is_input \/ CanAcquire(t)
    /\ IF ~is_input
       THEN Leave(t, Raise("ValueError", 159)) /\ UNCHANGED messages
       ELSE IF messages # <<>>
       THEN Leave(t, Return("msg", Head(messages), 164)) /\ messages' = Tail(messages)
       ELSE Goto(t, "receive_closed") /\ UNCHANGED messages
    /\ UNCHANGED <<Config, ports, ctor, closed, lock, finalized, callSends, calls,
                   nextMsg, closeCalls, sendAfterClose>>

\* receive(block), lines 166-170: the closed check, made without the lock.
ReceiveClosed(t) ==
    /\ pc[t] = "receive_closed"
    /\ IF closed
       THEN Leave(t, IF frame[t].block THEN Raise("ValueError", 168)
                     ELSE Return("None", NoMsg, 170))
       ELSE Goto(t, "receive_poll")
    /\ UNCHANGED <<Config, ports, ctor, closed, messages, lock, finalized, callSends,
                   calls, nextMsg, closeCalls, sendAfterClose>>

\* Mutant of ReceivePoll: the `elif not block: return None` branch is missing.
ReceivePoll_NoBlockTest(t) ==
    /\ pc[t] = "receive_poll"
    /\ CanAcquire(t)
    /\ \E msg \in ReceiveOutcomes :
        IF msg = "msg"
        THEN /\ Leave(t, Return("msg", Msg(nextMsg + 1), 176))
             /\ nextMsg' = nextMsg + 1
             /\ UNCHANGED messages
        ELSE IF msg = "generator"
        THEN Leave(t, Return("generator", NoMsg, 176)) /\ UNCHANGED <<messages, nextMsg>>
        ELSE IF messages # <<>>
        THEN /\ Leave(t, Return("msg", Head(messages), 179))
             /\ messages' = Tail(messages)
             /\ UNCHANGED nextMsg
        ELSE IF closed
        THEN Leave(t, Raise("IOError", 183)) /\ UNCHANGED <<messages, nextMsg>>
        ELSE /\ pc' = [pc EXCEPT ![t] = "receive_sleep"]
             /\ frame' = [frame EXCEPT ![t].recvs = Min(@ + 1, PollCap)]
             /\ UNCHANGED <<res, messages, nextMsg>>
    /\ UNCHANGED <<Config, ports, ctor, closed, lock, finalized, callSends, calls,
                   closeCalls, sendAfterClose>>

\* receive(block), lines 173-183: one iteration of the poll loop, under the lock.
ReceivePoll(t) ==
    /\ pc[t] = "receive_poll"
    /\ CanAcquire(t)
    /\ \E msg \in ReceiveOutcomes :
        IF msg = "msg"
        THEN /\ Leave(t, Return("msg", Msg(nextMsg + 1), 176))
             /\ nextMsg' = nextMsg + 1
             /\ UNCHANGED messages
        ELSE IF msg = "generator"
        THEN Leave(t, Return("generator", NoMsg, 176)) /\ UNCHANGED <<messages, nextMsg>>
        ELSE IF messages # <<>>
        THEN /\ Leave(t, Return("msg", Head(messages), 179))
             /\ messages' = Tail(messages)
             /\ UNCHANGED nextMsg
        ELSE IF ~frame[t].block
        THEN Leave(t, Return("None", NoMsg, 181)) /\ UNCHANGED <<messages, nextMsg>>
        ELSE IF closed
        THEN Leave(t, Raise("IOError", 183)) /\ UNCHANGED <<messages, nextMsg>>
        ELSE /\ pc' = [pc EXCEPT ![t] = "receive_sleep"]
             /\ frame' = [frame EXCEPT ![t].recvs = Min(@ + 1, PollCap)]
             /\ UNCHANGED <<res, messages, nextMsg>>
    /\ UNCHANGED <<Config, ports, ctor, closed, lock, finalized, callSends, calls, closeCalls, sendAfterClose>>

\* receive(block), line 185: sleep(get_sleep_time()), with the lock released.
ReceiveSleep(t) ==
    /\ pc[t] = "receive_sleep"
    /\ pc' = [pc EXCEPT ![t] = "receive_poll"]
    /\ frame' = [frame EXCEPT ![t].slept = TRUE]
    /\ UNCHANGED <<Config, ports, ctor, closed, messages, lock, finalized, res,
                   callSends, calls, nextMsg, closeCalls, sendAfterClose>>

\* -------------------------------------------------------------- iteration
\* One next() of the iterator of a port runs one receive().  BasePort.__iter__
\* (lines 189-196) calls receive() with block left at its default, True;
\* EchoPort.__iter__ (lines 259-264) calls receive(block=False).
IterBlock == kind # "Echo"

\* What the iterator makes of the outcome r of that receive(), isClosed being
\* self.closed when the except clause reads it: BasePort.__iter__ yields what
\* receive() returned, ends on an IOError raised on a closed port and lets
\* every other exception through; EchoPort.__iter__ ends on None.
IterOutcome(r, isClosed) ==
    IF r.tag = "raise"
    THEN IF kind # "Echo" /\ r.type = "IOError" /\ isClosed
         THEN [tag |-> "stop", type |-> "StopIteration", line |-> 194, val |-> NoMsg]
         ELSE Raise(r.type, r.line)
    ELSE IF kind = "Echo" /\ r.type = "None"
    THEN [tag |-> "stop", type |-> "StopIteration", line |-> 262, val |-> NoMsg]
    ELSE [tag |-> "yield", type |-> r.type, line |-> IF kind = "Echo" THEN 264 ELSE 191,
          val |-> r.val]

\* ------------------------------------------------------------ the callers
CallSend(t) ==
    /\ Idle(t) /\ MayCall
    /\ nextMsg < MaxMsgs
    /\ Enter(t, "send", [NoFrame EXCEPT !.op = "send", !.arg = Msg(nextMsg + 1)])
    /\ nextMsg' = nextMsg + 1
    /\ calls' = calls + 1
    /\ UNCHANGED <<Config, ports, ctor, closed, messages, lock, finalized, closeCalls, sendAfterClose>>

CallReceive(t) ==
    /\ Idle(t) /\ MayCall
    /\ \E b \in BOOLEAN : Enter(t, "receive", [NoFrame EXCEPT !.op = "receive", !.block = b])
    /\ calls' = calls + 1
    /\ UNCHANGED <<Config, ports, ctor, closed, messages, lock, finalized, nextMsg, closeCalls, sendAfterClose>>

\* next(it), it being iter(port): the iterator resumes and calls receive().
CallNext(t) ==
    /\ Idle(t) /\ MayCall
    /\ Enter(t, "receive", [NoFrame EXCEPT !.op = "next", !.block = IterBlock])
    /\ calls' = calls + 1
    /\ UNCHANGED <<Config, ports, ctor, closed, messages, lock, finalized, nextMsg, closeCalls, sendAfterClose>>

CallClose(t) ==
    /\ Idle(t) /\ MayCall
    /\ Enter(t, "close", [NoFrame EXCEPT !.op = "close"])
    /\ calls' = calls + 1
    /\ UNCHANGED <<Config, ports, ctor, closed, messages, lock, finalized, nextMsg, closeCalls, sendAfterClose>>

\* __exit__: the with block over the port ends in thread t; it calls close().
DunderExit(t) ==
    /\ Idle(t) /\ MayCall
    /\ Enter(t, "close", [NoFrame EXCEPT !.op = "close"])
    /\ calls' = calls + 1
    /\ UNCHANGED <<Config, ports, ctor, closed, messages, lock, finalized, nextMsg, closeCalls, sendAfterClose>>

\* __del__: the port is collected (no call is running, and none can follow; a
\* port whose construction failed is collected too); it calls close().
DunderDel(t) ==
    /\ ctor \in {"done", "failed"}
    /\ ~finalized
    /\ \A u \in Threads : Idle(u)
    /\ finalized' = TRUE
    /\ Enter(t, "close", [NoFrame EXCEPT !.op = "close"])
    /\ UNCHANGED <<Config, ports, ctor, closed, messages, lock, calls, nextMsg, closeCalls, sendAfterClose>>

\* alsamidi Port._handle_input_bytes: the backend's input thread appends to
\* self._messages (without the port lock) while the backend port exists.
HandleInputBytes ==
    /\ kind = "Driver" /\ caps.input
    /\ ctor = "done" /\ closeCalls = 0
    /\ nextMsg < MaxMsgs
    /\ nextMsg' = nextMsg + 1
    /\ messages' = Append(messages, Msg(nextMsg + 1))
    /\ UNCHANGED <<Config, ports, ctor, closed, lock, finalized, pc, frame, res,
                   callSends, calls, closeCalls, sendAfterClose>>

\* ------------------------------------------------------------------ Init
\* No message object exists and the sequential caller has made no call.
NoObjects ==
    /\ heap = <<>>
    /\ mine = {}
    /\ wire = <<>>
    /\ out = [op |-> "", tag |-> "nocall", type |-> "", line |-> 0, val |-> 0, arg |-> 0,
              step |-> 0]

\* No thread holds a generator or runs a loop over the children.
NoGen == [state |-> "none", block |-> FALSE, at |-> 0, cur |-> 0, val |-> NoMsg]
NoFan == [at |-> 0, hits |-> <<>>]
NoLoops ==
    /\ gen = [t \in Threads |-> NoGen]
    /\ fan = [t \in Threads |-> NoFan]

\* The backend registry has not been asked anything.
NoDict == [seq |-> 0, backends |-> <<>>]
NoLookup == [seq |-> 0, tag |-> "nocall", type |-> "", name |-> 0, val |-> <<>>]
NoRegistry ==
    /\ modules = <<>>
    /\ found = NoDict
    /\ lookup = NoLookup

\* No pair of ports has been made.
NoPair == twin = <<>>

NewChild(c, isClosed) ==
    [input |-> c.input, output |-> c.output, closed |-> isClosed, sent |-> 0]

ChildLists ==
    UNION {[1..n -> {NewChild(c, b) : c \in ChildCaps, b \in BOOLEAN}] : n \in 0..MaxChildren}

\* Every port type of the package keeps _locking = True (line 28); the port
\* type that opts out is the subject of LockSpec.
Init ==
    /\ kind \in {"Driver", "Echo", "Multi"}
    /\ locking = TRUE
    /\ caps \in IF kind = "Driver" THEN [input : BOOLEAN, output : BOOLEAN]
                ELSE {[input |-> FALSE, output |-> FALSE]}
    /\ autoreset \in IF kind = "Multi" THEN {MultiPortAutoreset} ELSE BOOLEAN
    /\ ports \in IF kind = "Multi" THEN ChildLists ELSE {<<>>}
    /\ ctor = "opening"
    /\ closed = TRUE
    /\ messages = <<>>
    /\ lock = NoThread
    /\ finalized = FALSE
    /\ pc = [t \in Threads |-> "idle"]
    /\ frame = [t \in Threads |-> NoFrame]
    /\ res = [t \in Threads |-> NoCall]
    /\ callSends = [t \in Threads |-> 0]
    /\ calls = 0
    /\ nextMsg = 0
    /\ closeCalls = 0
    /\ sendAfterClose = FALSE
    /\ NoObjects
    /\ NoLoops
    /\ NoRegistry
    /\ NoPair

Next ==
    \/ BasePortInit
    \/ HandleInputBytes
    \/ \E t \in Threads :
        \/ CallSend(t) \/ SendCheck(t) \/ SendLocked(t)
        \/ CallReceive(t) \/ CallNext(t) \/ ReceivePending(t) \/ ReceiveClosed(t)
        \/ ReceivePoll(t) \/ ReceiveSleep(t)
        \/ CallClose(t) \/ DunderExit(t) \/ DunderDel(t)
        \/ CloseEnter(t) \/ CloseReset(t) \/ CloseTransport(t) \/ CloseMark(t)

Spec == Init /\ [][Next]_vars

\* Fair scheduling: a thread inside a method goes on running it.  Nothing
\* obliges a caller to make a call, the input thread to deliver a message or
\* the collector to run.
Run(t) ==
    \/ SendCheck(t) \/ SendLocked(t)
    \/ ReceivePending(t) \/ ReceiveClosed(t) \/ ReceivePoll(t) \/ ReceiveSleep(t)
    \/ CloseEnter(t) \/ CloseReset(t) \/ CloseTransport(t) \/ CloseMark(t)

FairSpec == Spec /\ WF_vars(BasePortInit) /\ \A t \in Threads : WF_vars(Run(t))

\* =================================================== one sequential caller
\* SeqSpec: one thread uses a backend port or an EchoPort, without autoreset,
\* one call after the other, so that a whole method is one step.  A message is
\* an object with an address; heap[a] is the contents now at address a, and
\* the pending queue and the transport hold addresses.
NoObj == 0
Contents == {Msg(i) : i \in 1..MaxMsgs}

\* How a call ended: val is the object returned, arg the object passed, step
\* the number of the caller's step that made the call.
SeqOut(op, r, v, a) ==
    [op |-> op, tag |-> r.tag, type |-> r.type, line |-> r.line, val |-> v, arg |-> a,
     step |-> calls + 1]

\* What the sequential caller's steps leave alone.
SeqFrame ==
    <<kind, caps, locking, autoreset, ports, ctor, lock, finalized, pc, frame, res,
      callSends, sendAfterClose, loopVars, regVars, pairVars>>

SeqReady == ctor = "done" /\ calls < MaxSteps

\* Mutant of copy: the object itself is passed on.
copy_Alias(h, a) == [heap |-> h, addr |-> a]

\* msg.copy() (line 213): a new object with the contents of the object at a.
copy(h, a) == [heap |-> Append(h, h[a]), addr |-> Len(h) + 1]

\* The caller constructs a message.
NewMessage ==
    /\ SeqReady
    /\ \E c \in Contents :
        /\ heap' = Append(heap, c)
        /\ mine' = mine \cup {Len(heap) + 1}
    /\ calls' = calls + 1
    /\ UNCHANGED <<SeqFrame, closed, messages, nextMsg, closeCalls, wire, out>>

\* The caller modifies a message it constructed.
Mutate ==
    /\ SeqReady
    /\ \E a \in mine, c \in Contents :
        /\ c # heap[a]
        /\ heap' = [heap EXCEPT ![a] = c]
    /\ calls' = calls + 1
    /\ UNCHANGED <<SeqFrame, closed, messages, nextMsg, closeCalls, mine, wire, out>>

\* send(msg), lines 207-213, msg being the caller's object at address a.
SeqSend ==
    /\ SeqReady
    /\ \E a \in mine :
        IF ~is_output
        THEN /\ out' = SeqOut("send", Raise("ValueError", 208), NoObj, a)
             /\ UNCHANGED <<heap, wire, messages>>
        ELSE IF closed
        THEN /\ out' = SeqOut("send", Raise("ValueError", 210), NoObj, a)
             /\ UNCHANGED <<heap, wire, messages>>
        ELSE \E o \in SendOutcomes(ports) :
            LET c == copy(heap, a) IN
            /\ heap' = c.heap
            /\ wire' = Append(wire, [obj |-> c.addr, val |-> c.heap[c.addr]])
            /\ messages' =
                  TransportSend([messages |-> messages, ports |-> ports], c.addr, o).messages
            /\ out' = SeqOut("send", IF o.type = "ok" THEN Return("None", NoMsg, 213)
                                     ELSE Raise(o.type, 213), NoObj, a)
    /\ calls' = calls + 1
    /\ UNCHANGED <<SeqFrame, closed, nextMsg, closeCalls, mine>>

\* receive(block), lines 158-185.  A blocking receive() that finds nothing on
\* an open port never returns to a caller that is alone: it is not a step.
SeqReceive ==
    /\ SeqReady
    /\ \E block \in BOOLEAN :
        IF ~is_input
        THEN /\ out' = SeqOut("receive", Raise("ValueError", 159), NoObj, NoObj)
             /\ UNCHANGED <<heap, messages, nextMsg>>
        ELSE IF messages # <<>>
        THEN /\ out' = SeqOut("receive", Return("msg", NoMsg, 164), Head(messages), NoObj)
             /\ messages' = Tail(messages)
             /\ UNCHANGED <<heap, nextMsg>>
        ELSE IF closed
        THEN /\ out' = SeqOut("receive", IF block THEN Raise("ValueError", 168)
                                         ELSE Return("None", NoMsg, 170), NoObj, NoObj)
             /\ UNCHANGED <<heap, messages, nextMsg>>
        ELSE \E msg \in ReceiveOutcomes :
            IF msg = "msg"
            THEN /\ heap' = Append(heap, Msg(nextMsg + 1))
                 /\ nextMsg' = nextMsg + 1
                 /\ out' = SeqOut("receive", Return("msg", NoMsg, 176), Len(heap) + 1, NoObj)
                 /\ UNCHANGED messages
            ELSE /\ ~block
                 /\ out' = SeqOut("receive", Return("None", NoMsg, 181), NoObj, NoObj)
                 /\ UNCHANGED <<heap, messages, nextMsg>>
    /\ calls' = calls + 1
    /\ UNCHANGED <<SeqFrame, closed, closeCalls, mine, wire>>

\* The objects made by n rounds of `for msg in reset_messages(): self.send(msg)`
\* on heap h: round i makes the generator's message, at Len(h) + 2i - 1, and
\* send() makes its copy, at Len(h) + 2i.
ResetObjects(h, n) == h \o [j \in 1..(2 * n) |-> reset_messages[(j + 1) \div 2]]

\* The transport _send calls and the addresses handed over in those n rounds.
ResetWire(h, n) == [i \in 1..n |-> [obj |-> Len(h) + 2 * i, val |-> reset_messages[i]]]
ResetAddrs(h, n) == [i \in 1..n |-> Len(h) + 2 * i]

\* reset(), lines 217-221.
SeqReset ==
    /\ SeqReady
    /\ IF closed
       THEN /\ out' = SeqOut("reset", Return("None", NoMsg, 218), NoObj, NoObj)
            /\ UNCHANGED <<heap, wire, messages>>
       ELSE IF ~is_output
       THEN /\ out' = SeqOut("reset", Raise("ValueError", 208), NoObj, NoObj)
            /\ UNCHANGED <<heap, wire, messages>>
       ELSE \E n \in ResetFailAt, last \in SendOutcomes(ports) :
            /\ last.type = "ok" => n = Len(reset_messages)
            /\ heap' = ResetObjects(heap, n)
            /\ wire' = wire \o ResetWire(heap, n)
            /\ messages' = IF kind = "Echo" THEN messages \o ResetAddrs(heap, n) ELSE messages
            /\ out' = SeqOut("reset", IF last.type = "ok" THEN Return("None", NoMsg, 221)
                                      ELSE Raise(last.type, 213), NoObj, NoObj)
    /\ calls' = calls + 1
    /\ UNCHANGED <<SeqFrame, closed, nextMsg, closeCalls, mine>>

\* close(), lines 124-133, of a port without autoreset.
SeqClose ==
    /\ SeqReady
    /\ ~autoreset
    /\ IF closed
       THEN /\ out' = SeqOut("close", Return("None", NoMsg, 125), NoObj, NoObj)
            /\ UNCHANGED <<closed, closeCalls>>
       ELSE /\ closeCalls' = closeCalls + 1
            /\ \E o \in CloseOutcomes :
                IF o.type = "ok"
                THEN /\ closed' = TRUE
                     /\ out' = SeqOut("close", Return("None", NoMsg, 133), NoObj, NoObj)
                ELSE /\ out' = SeqOut("close", Raise(o.type, 132), NoObj, NoObj)
                     /\ UNCHANGED closed
    /\ calls' = calls + 1
    /\ UNCHANGED <<SeqFrame, messages, nextMsg, heap, mine, wire>>

SeqInit == Init /\ kind # "Multi" /\ ~autoreset /\ locking

SeqNext ==
    \/ BasePortInit
    \/ NewMessage \/ Mutate
    \/ SeqSend \/ SeqReceive \/ SeqReset \/ SeqClose

SeqSpec == SeqInit /\ [][SeqNext]_vars

\* ======================================================= MultiPort loops
\* MultiSpec: a MultiPort over NumPorts children, each an open port with a
\* name, its own pending queue and the count of the send() calls it got.  The
\* loops over self.ports are run one child at a time: MultiPort._send under
\* the MultiPort's lock, the body of the generator MultiPort._receive returns
\* outside it, whenever the thread that holds the generator resumes it.
Names == 1..NumPorts

SweepChild(n, c, q) ==
    [name |-> n, input |-> c.input, output |-> c.output, closed |-> FALSE, sent |-> 0,
     messages |-> q]

\* What child n can be: an output, an input with nothing pending or an input
\* holding one message.
ChildrenOf(n) ==
    {SweepChild(n, c, q) : c \in ChildCaps, q \in {<<>>, <<Msg(n)>>}}
        \ {SweepChild(n, [input |-> FALSE, output |-> TRUE], <<Msg(n)>>)}

\* The lists the MultiPort can be constructed with.
SweepLists ==
    {ps \in [Names -> UNION {ChildrenOf(n) : n \in Names}] :
        \A n \in Names : ps[n] \in ChildrenOf(n)}

MultiInit ==
    /\ kind = "Multi"
    /\ locking = TRUE
    /\ caps = [input |-> FALSE, output |-> FALSE]
    /\ autoreset = MultiPortAutoreset
    /\ ports \in SweepLists
    /\ ctor = "opening"
    /\ closed = TRUE
    /\ messages = <<>>
    /\ lock = NoThread
    /\ finalized = FALSE
    /\ pc = [t \in Threads |-> "idle"]
    /\ frame = [t \in Threads |-> NoFrame]
    /\ res = [t \in Threads |-> NoCall]
    /\ callSends = [t \in Threads |-> 0]
    /\ calls = 0
    /\ nextMsg = 0
    /\ closeCalls = 0
    /\ sendAfterClose = FALSE
    /\ NoObjects
    /\ NoLoops
    /\ NoRegistry
    /\ NoPair

\* What the steps of the loops leave alone.
MultiFrame ==
    <<kind, caps, locking, autoreset, ctor, finalized, objVars, regVars, pairVars>>

\* close() of the child at position i, called by whoever owns that port.
ChildClose(i) ==
    /\ ctor = "done"
    /\ i \in 1..Len(ports) /\ ~ports[i].closed
    /\ ports' = [ports EXCEPT ![i].closed = TRUE]
    /\ UNCHANGED <<MultiFrame, closed, messages, lock, pc, frame, res, callSends, calls,
                   nextMsg, closeCalls, sendAfterClose, loopVars>>

\* The send() calls a thread's MultiPort._send has made so far, by child.
NoHits == [n \in Names |-> 0]

\* send(msg) of a MultiPort, lines 212-213 and 293-301: under the lock,
\* MultiPort._send visits the child at the next position of self.ports, skips
\* it if it is no output or is closed, and calls its send() otherwise.
MultiSend(t) ==
    /\ pc[t] = "send_locked"
    /\ CanAcquire(t)
    /\ LET i == IF fan[t].at = 0 THEN 1 ELSE fan[t].at
           hits == IF fan[t].at = 0 THEN NoHits ELSE fan[t].hits
       IN
       /\ callSends' = [callSends EXCEPT ![t] = IF fan[t].at = 0 THEN @ + 1 ELSE @]
       /\ sendAfterClose' = (sendAfterClose \/ (fan[t].at = 0 /\ closed))
       /\ IF i > Len(ports)
          THEN /\ Leave(t, Return("None", NoMsg, 213))
               /\ lock' = NoThread
               /\ fan' = [fan EXCEPT ![t] = [at |-> 0, hits |-> hits]]
               /\ UNCHANGED ports
          ELSE IF ~ports[i].output \/ ports[i].closed
          THEN /\ Goto(t, "send_locked")
               /\ lock' = Acquired(t)
               /\ fan' = [fan EXCEPT ![t] = [at |-> i + 1, hits |-> hits]]
               /\ UNCHANGED ports
          ELSE \E e \in {"ok"} \cup TransportErrors :
               LET now == [hits EXCEPT ![ports[i].name] = @ + 1] IN
               IF e = "ok"
               THEN /\ Goto(t, "send_locked")
                    /\ lock' = Acquired(t)
                    /\ ports' = [ports EXCEPT ![i].sent = @ + 1]
                    /\ fan' = [fan EXCEPT ![t] = [at |-> i + 1, hits |-> now]]
               ELSE /\ Leave(t, Raise(e, 213))
                    /\ lock' = NoThread
                    /\ fan' = [fan EXCEPT ![t] = [at |-> 0, hits |-> now]]
                    /\ UNCHANGED ports
    /\ UNCHANGED <<MultiFrame, closed, messages, calls, nextMsg, closeCalls, gen>>

\* receive(block) of a MultiPort, lines 173-176: MultiPort._receive holds a
\* yield, so calling it runs none of its body and returns a new generator,
\* which is true in `if msg:` and is what receive() returns.
ReceiveGenerator(t) ==
    /\ pc[t] = "receive_poll"
    /\ CanAcquire(t)
    /\ "generator" \in ReceiveOutcomes
    /\ Leave(t, Return("generator", NoMsg, 176))
    /\ gen' = [gen EXCEPT ![t] = [state |-> "new", block |-> frame[t].block, at |-> 0,
                                  cur |-> 0, val |-> NoMsg]]
    /\ UNCHANGED <<MultiFrame, ports, closed, messages, lock, callSends, calls, nextMsg,
                   closeCalls, sendAfterClose, fan>>

\* The generator of thread t is not running: t can call the port's methods.
GenSuspended(t) == gen[t].state \in {"none", "new", "yield", "done"}

\* next() on the generator: its body starts (line 304), or goes on after the
\* yield inside `for message in port.iter_pending()` (lines 314-318).
GenResume(t) ==
    /\ Idle(t)
    /\ gen[t].state \in {"new", "yield"}
    /\ gen' = [gen EXCEPT ![t].state = IF gen[t].state = "new" THEN "top" ELSE "drain"]
    /\ UNCHANGED <<MultiFrame, ports, closed, messages, lock, pc, frame, res, callSends,
                   calls, nextMsg, closeCalls, sendAfterClose, fan>>

\* Lines 304-308: shuffle(self.ports) reorders the list itself, in any of the
\* orders; then the for loop starts at its first position.
GenShuffle(t) ==
    /\ gen[t].state = "top"
    /\ \E f \in Permutations(1..Len(ports)) :
        ports' = [i \in 1..Len(ports) |-> ports[f[i]]]
    /\ gen' = [gen EXCEPT ![t].state = "visit", ![t].at = 1]
    /\ UNCHANGED <<MultiFrame, closed, messages, lock, pc, frame, res, callSends, calls,
                   nextMsg, closeCalls, sendAfterClose, fan>>

\* Lines 308-312 and 320-323: the for loop takes the child at its next
\* position, skipping it if it is no input or is closed; at the end of the
\* list the generator sleeps if block is set and ends otherwise.
GenVisit(t) ==
    /\ gen[t].state = "visit"
    /\ LET i == gen[t].at IN
       IF i > Len(ports)
       THEN gen' = [gen EXCEPT ![t].state = IF gen[t].block THEN "sleep" ELSE "done"]
       ELSE IF ~ports[i].input \/ ports[i].closed
       THEN gen' = [gen EXCEPT ![t].at = i + 1]
       ELSE gen' = [gen EXCEPT ![t].state = "drain", ![t].at = i + 1,
                               ![t].cur = ports[i].name]
    /\ UNCHANGED <<MultiFrame, ports, closed, messages, lock, pc, frame, res, callSends,
                   calls, nextMsg, closeCalls, sendAfterClose, fan>>

\* The position in self.ports of the child named n.
Pos(n) == CHOOSE i \in 1..Len(ports) : ports[i].name = n

\* Lines 314-318 (and iter_pending, lines 137-144): one round of
\* port.iter_pending() on the child being drained: its receive(block=False)
\* gives its oldest pending message, which the generator yields (with
\* yield_ports left False), or None, which ends the draining of that child.
GenDrain(t) ==
    /\ gen[t].state = "drain"
    /\ LET i == Pos(gen[t].cur) IN
       IF ports[i].messages # <<>>
       THEN /\ ports' = [ports EXCEPT ![i].messages = Tail(@)]
            /\ gen' = [gen EXCEPT ![t].state = "yield", ![t].val = Head(ports[i].messages)]
       ELSE /\ gen' = [gen EXCEPT ![t].state = "visit", ![t].cur = 0]
            /\ UNCHANGED ports
    /\ UNCHANGED <<MultiFrame, closed, messages, lock, pc, frame, res, callSends, calls,
                   nextMsg, closeCalls, sendAfterClose, fan>>

\* Lines 320-321: sleep(get_sleep_time()), and back to the top of the loop.
GenSleep(t) ==
    /\ gen[t].state = "sleep"
    /\ gen' = [gen EXCEPT ![t].state = "top"]
    /\ UNCHANGED <<MultiFrame, ports, closed, messages, lock, pc, frame, res, callSends,
                   calls, nextMsg, closeCalls, sendAfterClose, fan>>

MultiNext ==
    \/ BasePortInit
    \/ \E i \in Names : ChildClose(i)
    \/ \E t \in Threads :
        \/ GenSuspended(t) /\ CallSend(t)
        \/ GenSuspended(t) /\ CallReceive(t)
        \/ GenSuspended(t) /\ CallClose(t)
        \/ SendCheck(t) \/ MultiSend(t)
        \/ ReceivePending(t) \/ ReceiveClosed(t) \/ ReceiveGenerator(t)
        \/ CloseEnter(t) \/ CloseReset(t) \/ CloseTransport(t) \/ CloseMark(t)
        \/ GenResume(t) \/ GenShuffle(t) \/ GenVisit(t) \/ GenDrain(t) \/ GenSleep(t)

MultiSpec == MultiInit /\ [][MultiNext]_vars

\* Fair scheduling: a thread inside a method or inside next() goes on running.
MultiRun(t) ==
    \/ SendCheck(t) \/ MultiSend(t)
    \/ ReceivePending(t) \/ ReceiveClosed(t) \/ ReceiveGenerator(t)
    \/ CloseEnter(t) \/ CloseReset(t) \/ CloseTransport(t) \/ CloseMark(t)
    \/ GenShuffle(t) \/ GenVisit(t) \/ GenDrain(t) \/ GenSleep(t)

MultiFairSpec ==
    MultiSpec /\ WF_vars(BasePortInit) /\ \A t \in Threads : WF_vars(MultiRun(t))

\* ====================================================== backend registry
\* RegSpec: src/libmidi_io/backends/__init__.py.  The candidates are the
\* modules iter_modules() finds in the package directory; what a candidate
\* is (whether it is there, whether importing it succeeds, which members it
\* has) is the environment's, and can change between two calls.
Candidates == 1..NumCandidates

\* A candidate: present (iter_modules lists it), loads (import_module
\* returns), get_devices and Port (the members the module has).  Only a
\* module that is there can load, and only one that loads has members.
ModuleStates ==
    {m \in [name : Candidates, present : BOOLEAN, loads : BOOLEAN, get_devices : BOOLEAN,
            Port : BOOLEAN] :
        /\ m.loads => m.present
        /\ (m.get_devices \/ m.Port) => m.loads}

RegReady == calls < MaxSteps

\* What the registry's steps leave alone.
RegFrame ==
    <<kind, caps, locking, autoreset, ports, ctor, closed, messages, lock, finalized, pc,
      frame, res, callSends, nextMsg, closeCalls, sendAfterClose, objVars, loopVars,
      pairVars>>

\* Mutant of IsBackend: only get_devices is asked for.
IsBackend_DevicesOnly(m) == m.get_devices

\* Line 26, negated: hasattr(module, 'get_devices') and hasattr(module, 'Port').
IsBackend(m) == m.get_devices /\ m.Port

\* Lines 20-30: the loop of get_available_backends over the candidates from
\* name n on, backends being the dict built so far: a candidate whose import
\* raises is passed over (except Exception: continue), so is one that lacks a
\* member, and any other is entered under its name.
RECURSIVE Scan(_, _)
Scan(n, backends) ==
    IF n > NumCandidates THEN backends
    ELSE IF ~modules[n].present THEN Scan(n + 1, backends)
    ELSE IF ~modules[n].loads THEN Scan(n + 1, backends)
    ELSE IF ~IsBackend(modules[n]) THEN Scan(n + 1, backends)
    ELSE Scan(n + 1, backends @@ (n :> modules[n]))

\* get_available_backends(), lines 17-32.
get_available_backends == Scan(1, <<>>)

\* A caller asks for the available backends.
GetAvailableBackends ==
    /\ RegReady
    /\ found' = [seq |-> calls + 1, backends |-> get_available_backends]
    /\ calls' = calls + 1
    /\ UNCHANGED <<RegFrame, modules, lookup>>

\* get_backend(name), lines 34-41.
GetBackend(name) ==
    /\ RegReady
    /\ LET backends == get_available_backends IN
       lookup' = IF name \notin DOMAIN backends
                 THEN [seq |-> calls + 1, tag |-> "raise", type |-> "ValueError",
                       name |-> name, val |-> <<>>]
                 ELSE [seq |-> calls + 1, tag |-> "ret", type |-> "module",
                       name |-> name, val |-> backends[name]]
    /\ calls' = calls + 1
    /\ UNCHANGED <<RegFrame, modules, found>>

\* The environment changes a candidate: a module is added to or removed from
\* the package, a library it imports appears or goes away, it is edited.
SetModule(m) ==
    /\ m \in ModuleStates
    /\ m # modules[m.name]
    /\ modules' = [modules EXCEPT ![m.name] = m]
    /\ UNCHANGED <<RegFrame, calls, found, lookup>>

\* No port exists in the registry's specification.
NoPort ==
    /\ kind = "none"
    /\ caps = [input |-> FALSE, output |-> FALSE]
    /\ locking = TRUE
    /\ autoreset = FALSE
    /\ ports = <<>>
    /\ ctor = "none"
    /\ closed = TRUE
    /\ messages = <<>>
    /\ lock = NoThread
    /\ finalized = FALSE
    /\ pc = [t \in Threads |-> "idle"]
    /\ frame = [t \in Threads |-> NoFrame]
    /\ res = [t \in Threads |-> NoCall]
    /\ callSends = [t \in Threads |-> 0]
    /\ calls = 0
    /\ nextMsg = 0
    /\ closeCalls = 0
    /\ sendAfterClose = FALSE
    /\ NoObjects
    /\ NoLoops
    /\ NoPair

RegInit ==
    /\ NoPort
    /\ modules \in {ms \in [Candidates -> ModuleStates] : \A n \in Candidates : ms[n].name = n}
    /\ found = NoDict
    /\ lookup = NoLookup

RegNext ==
    \/ GetAvailableBackends
    \/ \E name \in Candidates : GetBackend(name)
    \/ \E m \in ModuleStates : SetModule(m)

RegSpec == RegInit /\ [][RegNext]_vars

\* ================================================= the lock a port type picks
\* LockSpec: a backend port type is instantiated twice, once as it is by
\* default (_locking = True: self._lock is an RLock) and once opting out
\* (_locking = False: self._lock is a DummyLock, line 43).  One caller makes the
\* same send/receive/close calls on both, one call after the other, and the
\* transport answers both alike, so that a whole method is one step.  Of each
\* port the specification keeps self.closed, self._messages, the transport
\* calls made so far and how the last call ended.
Locks == {"RLock", "DummyLock"}

\* The body of a with block reached its end without returning or raising.
Through == [tag |-> "through", type |-> "", line |-> 0, val |-> NoMsg]

\* The end of a `with self._lock:` block that began at `line` and whose body
\* ended as r.  RLock.__exit__ releases the lock and lets r through.
\* DummyLock.__exit__ is DummyLock.release (lock.py line 18), a function of
\* self alone (line 15); the with statement calls __exit__ with the three
\* exception arguments, so the call raises TypeError, which takes the place
\* of r whether the body returned, raised or reached its end.
LockExit(l, r, line) == IF l = "RLock" THEN r ELSE Raise("TypeError", line)

\* What a method returns when the code after its last with block is reached.
Finish(r, ret) == IF r.tag = "through" THEN ret ELSE r

PairOut(op, r) ==
    [op |-> op, tag |-> r.tag, type |-> r.type, line |-> r.line, val |-> r.val]

\* A port after a successful construction (lines 40-50).
OpenPort ==
    [closed |-> FALSE, messages |-> <<>>, trace |-> <<>>,
     out |-> [op |-> "", tag |-> "nocall", type |-> "", line |-> 0, val |-> NoMsg]]

\* send(msg), lines 207-213, on port p whose lock is l; o is the outcome of
\* the transport _send.
send(l, p, m, o) ==
    IF ~is_output THEN [p EXCEPT !.out = PairOut("send", Raise("ValueError", 208))]
    ELSE IF p.closed THEN [p EXCEPT !.out = PairOut("send", Raise("ValueError", 210))]
    ELSE LET body == IF o.type = "ok" THEN Through ELSE Raise(o.type, 213) IN
         [p EXCEPT !.trace = Append(@, <<"_send", m>>),
                   !.out = PairOut("send", Finish(LockExit(l, body, 212),
                                                  Return("None", NoMsg, 213)))]

\* reset(), lines 217-221, the transport answering the first n - 1 _send calls
\* with Ok and the n-th with `last`: the loop ends at the first send() that
\* raises.  The result is the port and how reset() ended.
reset(l, p, n, last) ==
    IF p.closed THEN [p |-> p, r |-> Return("None", NoMsg, 218)]
    ELSE IF ~is_output THEN [p |-> p, r |-> Raise("ValueError", 208)]
    ELSE LET sent(i) == send(l, p, reset_messages[i], IF i = n THEN last ELSE Ok).out
             raising == {i \in 1..n : sent(i).tag = "raise"}
             k == IF raising = {} THEN n
                  ELSE CHOOSE i \in raising : \A j \in raising : i <= j
         IN [p |-> [p EXCEPT !.trace = @ \o [i \in 1..k |-> <<"_send", reset_messages[i]>>]],
             r |-> IF raising = {} THEN Return("None", NoMsg, 221)
                   ELSE Raise(sent(k).type, sent(k).line)]

\* close(), lines 124-133; oc is the outcome of the transport _close.
close(l, p, n, last, oc) ==
    LET rs == IF autoreset THEN reset(l, p, n, last) ELSE [p |-> p, r |-> Through]
        body ==
            IF p.closed THEN [p |-> p, r |-> Through]
            ELSE IF rs.r.tag = "raise" /\ rs.r.type # "IOError" THEN rs
            ELSE IF oc.type = "ok"
            THEN [p |-> [rs.p EXCEPT !.trace = Append(@, <<"_close", NoMsg>>),
                                     !.closed = TRUE],
                  r |-> Through]
            ELSE [p |-> [rs.p EXCEPT !.trace = Append(@, <<"_close", NoMsg>>)],
                  r |-> Raise(oc.type, 132)]
    IN [body.p EXCEPT !.out = PairOut("close", Finish(LockExit(l, body.r, 124),
                                                      Return("None", NoMsg, 133)))]

\* receive(block), lines 158-185; got is what the transport _receive gives, if
\* it is asked: a message or NoMsg (None).  No message arrives while the call
\* runs, so the queue is still empty at line 178, and a result "through" of
\* the poll iteration means that the call sleeps and polls again.
receive(l, p, block, got) ==
    IF ~is_input THEN [p EXCEPT !.out = PairOut("receive", Raise("ValueError", 159))]
    ELSE
    LET p1 == IF p.messages # <<>> THEN [p EXCEPT !.messages = Tail(@)] ELSE p
        r1 == LockExit(l, IF p.messages # <<>> THEN Return("msg", Head(p.messages), 164)
                          ELSE Through, 162)
        p2 == [p1 EXCEPT !.trace = Append(@, <<"_receive", NoMsg>>)]
        r2 == LockExit(l, IF got # NoMsg THEN Return("msg", got, 176)
                          ELSE IF ~block THEN Return("None", NoMsg, 181)
                          ELSE Through, 173)
    IN IF r1.tag # "through" THEN [p1 EXCEPT !.out = PairOut("receive", r1)]
       ELSE IF p1.closed
       THEN [p1 EXCEPT !.out = PairOut("receive", IF block THEN Raise("ValueError", 168)
                                                  ELSE Return("None", NoMsg, 170))]
       ELSE [p2 EXCEPT !.out = PairOut("receive", r2)]

\* What the caller's steps leave alone.
PairFrame ==
    <<kind, caps, locking, autoreset, ports, ctor, closed, messages, lock, finalized, pc,
      frame, res, callSends, closeCalls, sendAfterClose, objVars, loopVars, regVars>>

PairReady == calls < MaxSteps

\* The caller sends a new message on both ports.
PairSend ==
    /\ PairReady
    /\ nextMsg < MaxMsgs
    /\ \E o \in SendOutcomes(ports) :
        twin' = [l \in Locks |-> send(l, twin[l], Msg(nextMsg + 1), o)]
    /\ nextMsg' = nextMsg + 1
    /\ calls' = calls + 1
    /\ UNCHANGED PairFrame

\* The caller calls receive(block) on both ports; fresh: the transport has a
\* message to give, and gives it to the port that asks.  A call that would
\* sleep and poll for ever on the port with the RLock is not a step.
PairReceive ==
    /\ PairReady
    /\ \E block \in BOOLEAN, fresh \in BOOLEAN :
        /\ fresh => nextMsg < MaxMsgs
        /\ twin' = [l \in Locks |->
                       receive(l, twin[l], block, IF fresh THEN Msg(nextMsg + 1) ELSE NoMsg)]
        /\ fresh => twin'["RLock"].out.val = Msg(nextMsg + 1)
        /\ nextMsg' = IF fresh THEN nextMsg + 1 ELSE nextMsg
    /\ twin'["RLock"].out.tag # "through"
    /\ calls' = calls + 1
    /\ UNCHANGED PairFrame

\* The caller calls close() on both ports.
PairClose ==
    /\ PairReady
    /\ \E n \in ResetFailAt, last \in SendOutcomes(ports), oc \in CloseOutcomes :
        /\ last.type = "ok" => n = Len(reset_messages)
        /\ twin' = [l \in Locks |-> close(l, twin[l], n, last, oc)]
    /\ calls' = calls + 1
    /\ UNCHANGED <<PairFrame, nextMsg>>

\* alsamidi Port._handle_input_bytes: between two calls the backend's input
\* thread appends the message that arrived to self._messages, on each port
\* whose transport has not been closed.
PairInput ==
    /\ PairReady
    /\ caps.input
    /\ nextMsg < MaxMsgs
    /\ \E l \in Locks : ~twin[l].closed
    /\ twin' = [l \in Locks |->
                   IF twin[l].closed THEN twin[l]
                   ELSE [twin[l] EXCEPT !.messages = Append(@, Msg(nextMsg + 1))]]
    /\ nextMsg' = nextMsg + 1
    /\ calls' = calls + 1
    /\ UNCHANGED PairFrame

\* Both ports have been constructed and opened; no call has been made.
LockInit ==
    /\ kind = "Driver"
    /\ caps \in [input : BOOLEAN, output : BOOLEAN]
    /\ locking = TRUE
    /\ autoreset \in BOOLEAN
    /\ ports = <<>>
    /\ ctor = "done"
    /\ closed = FALSE
    /\ messages = <<>>
    /\ lock = NoThread
    /\ finalized = FALSE
    /\ pc = [t \in Threads |-> "idle"]
    /\ frame = [t \in Threads |-> NoFrame]
    /\ res = [t \in Threads |-> NoCall]
    /\ callSends = [t \in Threads |-> 0]
    /\ calls = 0
    /\ nextMsg = 0
    /\ closeCalls = 0
    /\ sendAfterClose = FALSE
    /\ NoObjects
    /\ NoLoops
    /\ NoRegistry
    /\ twin = [l \in Locks |-> OpenPort]

LockNext == PairSend \/ PairReceive \/ PairClose \/ PairInput

LockSpec == LockInit /\ [][LockNext]_vars

\* ------------------------------------------------------------ properties
Stepped(t) == pc'[t] # pc[t]
InClose(t) == pc[t] \in {"close", "close_reset", "close_transport", "close_mark"}
InReceive(t) ==
    pc[t] \in {"receive", "receive_closed", "receive_poll", "receive_sleep"}
Ended(t, op) == res[t].op = op /\ res[t].tag \in {"ret", "raise"}
IsPrefix(a, b) == Len(a) <= Len(b) /\ SubSeq(b, 1, Len(a)) = a

\* C1: self.closed is true all through construction and stays true when _open
\* fails; it goes from true to false only at the successful return of _open
\* inside __init__, which happens at most once, so a port that close() has
\* marked closed is never open again.
C1_OpenOnceNeverReopened ==
    /\ [](ctor \in {"opening", "failed"} => closed)
    /\ [][(closed /\ ~closed') => (ctor = "opening" /\ ctor' = "done")]_vars
    /\ [][ctor # "opening" => ctor' = ctor]_vars

\* A port that was opened and closed refuses a later send() and stays closed.
C1_Witness ==
    /\ ctor = "done" /\ closed
    /\ \E t \in Threads : Ended(t, "send") /\ res[t].line = 210

\* C2: a close() that finds the port already closed returns None and invokes
\* neither the transport close nor the transport send, leaving closed, the
\* pending queue and the children as they were.
C2_SecondCloseNoOp ==
    [][\A t \in Threads :
         (pc[t] = "close" /\ closed /\ Stepped(t)) =>
            /\ pc'[t] = "idle"
            /\ res'[t].tag = "ret" /\ res'[t].type = "None"
            /\ closed'
            /\ UNCHANGED <<messages, ports, closeCalls, callSends, sendAfterClose, lock>>]_vars

\* Two close() calls have returned and the transport close ran once.
C2_Witness ==
    /\ closed /\ closeCalls = 1
    /\ \E t \in Threads : Ended(t, "close") /\ res[t].line = 125 /\ res[t].onClosed

\* C3: close() of a port with autoreset never ends with a failure of its
\* reset step (a ValueError or IOError raised by the send() calls of reset(),
\* lines 207-213): it goes on to the transport close and the port is closed.
C3_ResetFailureNotPropagated ==
    \A t \in Threads :
        (Ended(t, "close") /\ res[t].tag = "raise" /\ res[t].type \in {"ValueError", "IOError"})
            => res[t].line = 132

\* C4: on a locking port the transport _close is invoked at most once.
C4_TransportCloseAtMostOnce == locking => closeCalls <= 1

\* C5: the step of send() that makes the checks raises InvalidOperation and
\* changes nothing when the port is not an output or is closed, and otherwise
\* goes on to the locked part, which invokes the transport send exactly once.
C5_SendChecks ==
    [][\A t \in Threads :
         /\ (pc[t] = "send" /\ Stepped(t)) =>
               IF ~is_output \/ closed
               THEN /\ pc'[t] = "idle"
                    /\ res'[t].tag = "raise" /\ res'[t].type = InvalidOperation
                    /\ UNCHANGED <<closed, messages, ports, callSends, closeCalls>>
               ELSE pc'[t] = "send_locked" /\ callSends'[t] = 0
         /\ (pc[t] = "send_locked" /\ Stepped(t)) =>
               pc'[t] = "idle" /\ callSends'[t] = 1]_vars

\* A send() on a closed output port was refused.
C5_Witness ==
    \E t \in Threads :
        /\ Ended(t, "send") /\ res[t].line = 210 /\ res[t].onClosed
        /\ callSends[t] = 0 /\ is_output

\* C6: on a locking port the transport send is never invoked once the port
\* has been closed.
C6_NoSendAfterClose == locking => ~sendAfterClose

\* C7: the first locked step of receive() on an input port with a non-empty
\* pending queue returns the head of the queue and removes it, whatever block
\* and closed are; and no step of close() removes a pending message.
C7_PendingFirst ==
    [][\A t \in Threads :
         /\ (pc[t] = "receive" /\ Stepped(t) /\ is_input /\ messages # <<>>) =>
               /\ pc'[t] = "idle"
               /\ res'[t].tag = "ret" /\ res'[t].val = Head(messages)
               /\ messages' = Tail(messages)
         /\ (InClose(t) /\ Stepped(t)) => IsPrefix(messages, messages')]_vars

\* A receive() on a closed port has returned a buffered message.
C7_Witness ==
    \E t \in Threads :
        Ended(t, "receive") /\ res[t].line = 164 /\ res[t].onClosed /\ res[t].type = "msg"

\* C8: a receive() that fails for another reason than the port not being an
\* input fails with ClosedPort, which is not the InvalidOperation kind.
C8_ClosedPortKind ==
    \A t \in Threads :
        (Ended(t, "receive") /\ res[t].tag = "raise" /\ res[t].line # 159)
            => (res[t].type = ClosedPort /\ res[t].type # InvalidOperation)

C11_IterationEndsQuietly ==
    \A t \in Threads :
        (Ended(t, "next") /\ is_input) => IterOutcome(res[t], closed).tag # "raise"

\* C12: on a backend port, whose messages are numbered in the order the driver
\* delivered them, a message that receive() has returned is older than every
\* message still pending: none is overtaken by one received later.
C12_FifoOrder ==
    kind = "Driver" =>
        \A t \in Threads :
            (Ended(t, "receive") /\ res[t].type = "msg") =>
                \A i \in 1..Len(messages) : messages[i][2] > res[t].val[2]

\* C13: a send() that reaches the transport hands over a new object, not the
\* caller's, whose contents are those of the caller's message; no object the
\* transport was given is one the caller can mutate, and each keeps the
\* contents it was handed over with; so the k-th message an EchoPort's
\* receive() returns is the k-th object sent, with its contents at send time.
C13_CopyOnSend ==
    /\ [][(out'.op = "send" /\ out'.step # out.step /\ out'.line = 213) =>
            /\ Len(wire') = Len(wire) + 1
            /\ LET w == wire'[Len(wire')] IN
                /\ w.obj # out'.arg /\ w.obj \notin mine'
                /\ w.val = heap[out'.arg]
                /\ heap'[w.obj] = heap[out'.arg]
                /\ heap'[out'.arg] = heap[out'.arg]]_vars
    /\ [](\A i \in 1..Len(wire) : wire[i].obj \notin mine /\ heap[wire[i].obj] = wire[i].val)
    /\ []((kind = "Echo" /\ out.op = "receive" /\ out.type = "msg") =>
            LET k == Len(wire) - Len(messages) IN
            /\ k \in 1..Len(wire)
            /\ out.val = wire[k].obj
            /\ heap[out.val] = wire[k].val)

\* An EchoPort's receive() returned the message as it was sent, after the
\* caller had given its own object other contents.
C13_Witness ==
    /\ kind = "Echo" /\ out.op = "receive" /\ out.type = "msg"
    /\ Len(wire) = 1 /\ heap[out.val] = wire[1].val
    /\ Cardinality(mine) = 1
    /\ \A a \in mine : heap[a] # heap[out.val]

\* C14: reset() on a closed port returns None and changes nothing; reset() on
\* an open output port whose sends all succeed hands the transport exactly 32
\* messages more: for each channel 0..15 in turn, control change 123 with
\* value 0 and then control change 121 with value 0.
C14_ResetSequence ==
    [][(out'.op = "reset" /\ out'.step # out.step) =>
         IF closed
         THEN /\ out'.tag = "ret" /\ out'.type = "None"
              /\ UNCHANGED <<wire, messages, heap, closed, closeCalls>>
         ELSE (is_output /\ out'.tag = "ret") =>
              /\ Len(wire') = Len(wire) + 32
              /\ SubSeq(wire', 1, Len(wire)) = wire
              /\ \A c \in 0..15 :
                  /\ wire'[Len(wire) + 2 * c + 1].val = <<"cc", c, 123, 0>>
                  /\ wire'[Len(wire) + 2 * c + 2].val = <<"cc", c, 121, 0>>]_vars

\* A reset() on an open output port has returned.
C14_Witness ==
    /\ out.op = "reset" /\ out.line = 221 /\ ~closed /\ is_output
    /\ Len(wire) = 32

\* C15: a MultiPort.send() that has returned called send() exactly once on
\* every child that is an output and is open, never on a child that is no
\* output, and on no child more than once.
C15_FanOutOnce ==
    \A t \in Threads :
        (Ended(t, "send") /\ res[t].tag = "ret") =>
            \A n \in Names :
                /\ fan[t].hits[n] <= 1
                /\ (ports[Pos(n)].output /\ ~ports[Pos(n)].closed) => fan[t].hits[n] = 1
                /\ ~ports[Pos(n)].output => fan[t].hits[n] = 0

\* C16: a MultiPort.receive(block=False) that returns gives a message or None.
C16_NonBlockingMessageOrNone ==
    \A t \in Threads :
        (Ended(t, "receive") /\ res[t].tag = "ret" /\ ~gen[t].block) =>
            res[t].type \in {"msg", "None"}

\* C18: a blocking sweep that is running when the MultiPort is closed and no
\* child has a pending message comes to an end.
C18_ClosedSweepEnds ==
    \A t \in Threads :
        (/\ gen[t].block /\ gen[t].state \in {"top", "visit", "drain", "sleep"}
         /\ closed
         /\ \A i \in 1..Len(ports) : ports[i].messages = <<>>)
            ~> (gen[t].state = "done")

\* C19: no iteration of the poll loop of receive(), which begins by invoking
\* the transport _receive, is run once close() has invoked the transport
\* _close and marked the port closed.
C19_NoReceiveAfterClose ==
    [][\A t \in Threads :
         (pc[t] = "receive_poll" /\ Stepped(t)) => ~(closeCalls > 0 /\ closed)]_vars

\* C20: the MultiPort's list of children keeps the order it was given in.
C20_ListOrderKept == \A i \in 1..Len(ports) : ports[i].name = i

\* C17: get_available_backends() returns, without raising, the dict of
\* exactly the candidates that are there now, load and have both get_devices
\* and Port, each under its name, whatever an earlier call found; and
\* get_backend(name) returns the module of that name if it is one of these
\* and raises ValueError naming the requested name otherwise.
C17_Discovery ==
    /\ [][found'.seq # found.seq =>
            /\ DOMAIN found'.backends =
                  {n \in Candidates : /\ modules[n].present /\ modules[n].loads
                                      /\ modules[n].get_devices /\ modules[n].Port}
            /\ \A n \in DOMAIN found'.backends : found'.backends[n] = modules[n]]_vars
    /\ [][lookup'.seq # lookup.seq =>
            LET n == lookup'.name IN
            IF /\ modules[n].present /\ modules[n].loads
               /\ modules[n].get_devices /\ modules[n].Port
            THEN lookup'.tag = "ret" /\ lookup'.val = modules[n]
            ELSE lookup'.tag = "raise" /\ lookup'.type = "ValueError"]_vars

\* A discovery returned one backend although the other candidate does not
\* load, and get_backend refused the name of the candidate that does not load.
C17_Witness ==
    /\ found.seq > lookup.seq /\ lookup.seq > 0
    /\ \E n \in Candidates, m \in Candidates :
        /\ DOMAIN found.backends = {n}
        /\ modules[m].present /\ ~modules[m].loads
        /\ lookup.tag = "raise" /\ lookup.name = m

\* C21: after every sequence of send/receive/close calls made by one caller,
\* the port with the DummyLock is where the port with the RLock is: its last
\* call returned the same value or raised the same error, the transport got
\* the same calls, and closed and the pending queue are the same.
C21_DummyLockSameAsRLock ==
    twin # <<>> =>
        LET a == twin["RLock"]
            b == twin["DummyLock"]
        IN /\ b.out.tag = a.out.tag /\ b.out.type = a.out.type /\ b.out.val = a.out.val
           /\ b.trace = a.trace
           /\ b.closed = a.closed
           /\ b.messages = a.messages

====
